---- MODULE Spec2Model ----
(***************************************************************************)
(* The quote storage-and-voting engine of aarondl/quotes.                  *)
(*                                                                         *)
(* src/ holds three revisions of the engine file quotes.go:                *)
(*   "part_000"  src/unnamed/part_000  quotes only, no votes               *)
(*   "quotes.go" src/quotes.go         votes, DelQuote is one statement    *)
(*   "part_001"  src/unnamed/part_001  votes, DelQuote cascades in a tx    *)
(* The variable rev says which revision a behaviour runs; it never         *)
(* changes.  The backing store is SQLite in its default rollback-journal   *)
(* mode, reached through database/sql: a transaction that has read holds   *)
(* a SHARED lock, one transaction at a time may hold RESERVED and buffer   *)
(* writes that no other connection sees, and a commit of writes needs      *)
(* every other SHARED lock gone.                                           *)
(*                                                                         *)
(* The presentation layer is the handler quotesRoot of the latest web.go,  *)
(* src/unnamed/part_002, the revision that knows credentials and vote      *)
(* sorting; it runs on the engines that have GetAll(filterLow).  The older *)
(* handlers (src/web.go, the second half of part_001) have neither.        *)
(***************************************************************************)
EXTENDS Integers, FiniteSets, Sequences, TLC

\* ------------------------------------------------------------------ bounds
\* Largest quote id the store hands out.
MaxId ==
  2
\* Last second of the clock (time.Now().Unix() ranges over 0..MaxTime).
MaxTime ==
  1
\* Largest value of the cached count at which AddQuote is still called.
MaxCount ==
  2

Callers == {"c1", "c2"}
Voters == {"x", "y"}
Authors == {"Ada"}
Texts == {"Q1", "Q2"}
Revisions == {"part_000", "quotes.go", "part_001"}
None == "none"
Leaked == "leaked"

\* ------------------------------------------------------- program constants
quoteThreshold ==
  -2

VARIABLES
  rev,      \* the revision of quotes.go that runs
  quotes,   \* committed rows of table quotes: [id, date, author, quote]
  votes,    \* committed rows of table votes: [quote_id, voter, vote, date]
  seq,      \* sqlite_sequence of table quotes (AUTOINCREMENT, part_001 only)
  nQuotes,  \* QuoteDB.nQuotes, the cached count
  dbOpen,   \* QuoteDB.db # nil
  now,      \* time.Now().Unix()
  mu,       \* holder of the write lock of QuoteDB.RWMutex, or None
  call,     \* per caller: the call in progress (NoCall when idle)
  writer,   \* the transaction holding SQLite's RESERVED lock, None, or Leaked
  pq,       \* the writer's uncommitted table quotes
  pv,       \* the writer's uncommitted table votes
  shared,   \* callers whose open transaction holds a SHARED lock
  leakedShared, \* a transaction never ended still holds a SHARED lock
  ret,      \* the return its caller is taking: the call's arguments and results
  issued,   \* history: the ids sqlAdd has given to new rows so far
  pool,     \* an *sql.DB of the store is open: sql.Open returned it, not closed yet
  opening,  \* OpenDB's position: "none" when no OpenDB is running
  webuser,  \* QuoteDB.webuser, a sequence of characters
  webhash   \* QuoteDB.webhash, <<>> when nil

vars == <<rev, quotes, votes, seq, nQuotes, dbOpen, now, mu, call, writer, pq, pv,
          shared, leakedShared, ret, issued, pool, opening, webuser, webhash>>

store == <<quotes, votes, seq>>
locks == <<writer, pq, pv, shared, leakedShared>>
env == <<rev, dbOpen, now, issued, pool, opening, webuser, webhash>>

\* ----------------------------------------------------------- SQL statements
\* Mutant: the existence check answers 1 for every id.
HasQuoteAlways(qs, id) ==
  TRUE

\* sqlHasQuote: SELECT EXISTS(SELECT id FROM quotes WHERE id = ?)
HasQuote(qs, id) ==
  \E r \in qs : r.id = id

\* sqlHasVote scanned into `var vote int`: the vote of the row, and 0 (the
\* variable untouched) on sql.ErrNoRows.
HasVote(vs, id, voter) ==
  IF \E r \in vs : r.quote_id = id /\ r.voter = voter
  THEN (CHOOSE r \in vs : r.quote_id = id /\ r.voter = voter).vote
  ELSE 0

\* sqlGetUpvotes / the upvotes subquery
GetUpvotes(vs, id) ==
  Cardinality({r \in vs : r.quote_id = id /\ r.vote = 1})

\* sqlGetDownvotes / the downvotes subquery
GetDownvotes(vs, id) ==
  Cardinality({r \in vs : r.quote_id = id /\ r.vote = 0 - 1})

\* PRIMARY KEY (quote_id, voter) of table votes
VotePrimaryKeyFree(vs, id, voter) ==
  ~ \E r \in vs : r.quote_id = id /\ r.voter = voter

\* FOREIGN KEY (quote_id) REFERENCES quotes (id), enforced: _foreign_keys=1
VoteForeignKeyOK(qs, id) ==
  HasQuote(qs, id)

\* Mutant: the insert writes date 0 instead of its time argument.
InsertVoteEpoch(vs, id, voter, vote, t) ==
  vs \cup {[quote_id |-> id, voter |-> voter, vote |-> vote, date |-> 0]}

\* sqlUpvote / sqlDownvote: INSERT INTO votes (quote_id, voter, vote, date)
InsertVote(vs, id, voter, vote, t) ==
  vs \cup {[quote_id |-> id, voter |-> voter, vote |-> vote, date |-> t]}

\* Mutant: the delete has no quote_id in its WHERE clause.
DeleteVoteOfVoter(vs, id, voter) ==
  {r \in vs : r.voter # voter}

\* Mutant: the delete matches no row.
DeleteVoteNone(vs, id, voter) ==
  vs

\* sqlUnvote: DELETE FROM VOTES WHERE quote_id = ? AND voter = ?
DeleteVote(vs, id, voter) ==
  {r \in vs : ~(r.quote_id = id /\ r.voter = voter)}

\* sqlDelVotes: DELETE FROM votes WHERE quote_id = ?
DeleteVotesOf(vs, id) ==
  {r \in vs : r.quote_id # id}

\* sqlDel: DELETE FROM quotes WHERE id = ?
DeleteQuoteRow(qs, id) ==
  {r \in qs : r.id # id}

\* Mutant: the UPDATE has no WHERE clause.
EditQuoteRowAll(qs, id, text) ==
  {[r EXCEPT !.quote = text] : r \in qs}

\* sqlEdit: UPDATE quotes SET quote = ? WHERE id = ?
EditQuoteRow(qs, id, text) ==
  {IF r.id = id THEN [r EXCEPT !.quote = text] ELSE r : r \in qs}

\* Mutant: the statement counts every row of the table as affected.
RowsAffectedAll(qs, id) ==
  Cardinality(qs)

\* RowsAffected of sqlDel / sqlEdit
RowsAffected(qs, id) ==
  Cardinality({r \in qs : r.id = id})

MaxOf(S) ==
  IF S = {} THEN 0 ELSE CHOOSE m \in S : \A k \in S : k <= m

\* The id sqlAdd gives the new row: `id INTEGER PRIMARY KEY` is the largest
\* rowid in the table plus one; with AUTOINCREMENT (part_001) it is the largest
\* rowid the table ever held plus one.
NextId(qs, sq) ==
  IF rev = "part_001"
  THEN MaxOf({r.id : r \in qs} \cup {sq}) + 1
  ELSE MaxOf({r.id : r \in qs}) + 1

\* sqlGetCount: SELECT COUNT(*) FROM quotes
GetCount(qs) ==
  Cardinality(qs)

\* upvotes - downvotes of the filtered queries
Score(vs, id) ==
  GetUpvotes(vs, id) - GetDownvotes(vs, id)

\* ------------------------------------------------------------------- calls
\* A caller between calls.  began is history: the second in which the call
\* was made.
NoCall ==
  [op |-> "none", pc |-> "idle", id |-> 0, voter |-> "", text |-> "", author |-> "",
   vote |-> 0, n |-> 0, fault |-> FALSE, err |-> "nil", began |-> 0]

\* The request of a call that is not an HTTP request: r.BasicAuth() of a
\* request without credentials is ("", "", false).
NoReq ==
  [auth |-> FALSE, user |-> <<>>, pwd |-> <<>>, path |-> "/", all |-> FALSE,
   votesort |-> FALSE]

\* No call has returned yet.
NoRet ==
  [caller |-> "", op |-> "none", id |-> 0, voter |-> "", text |-> "", author |-> "",
   vote |-> 0, ok |-> FALSE, err |-> "nil", n |-> 0, m |-> 0, fault |-> FALSE,
   filterLow |-> FALSE, rows |-> <<>>, req |-> NoReq, status |-> 0]

\* c's call is at program counter pc, and the last return has been taken by
\* its caller.
At(c, pc) ==
  /\ ret = NoRet
  /\ call[c].pc = pc

Ready(c) ==
  At(c, "idle")

\* c enters op at program counter pc.
Enter(c, op, pc, id, voter, author, text) ==
  call' = [call EXCEPT ![c] = [NoCall EXCEPT !.op = op, !.pc = pc, !.id = id,
                                !.voter = voter, !.author = author, !.text = text,
                                !.began = now]]

\* c's call in progress returns (ok, err) and the numbers (n, m); fault says
\* that a store statement of this step failed.
Return(c, ok, err, n, m, fault) ==
  /\ ret' = [caller |-> c, op |-> call[c].op, id |-> call[c].id,
             voter |-> call[c].voter, text |-> call[c].text,
             author |-> call[c].author, vote |-> call[c].vote, ok |-> ok,
             err |-> err, n |-> n, m |-> m, fault |-> (call[c].fault \/ fault),
             filterLow |-> FALSE, rows |-> <<>>, req |-> NoReq, status |-> 0]
  /\ call' = [call EXCEPT ![c] = NoCall]

\* A call of one step: c enters op and returns at once.
Once(c, op, id, voter, author, text, ok, err, n, m, fault) ==
  /\ ret' = [caller |-> c, op |-> op, id |-> id, voter |-> voter, text |-> text,
             author |-> author, vote |-> 0, ok |-> ok, err |-> err, n |-> n,
             m |-> m, fault |-> fault, filterLow |-> FALSE, rows |-> <<>>,
             req |-> NoReq, status |-> 0]
  /\ UNCHANGED call

\* GetAll(filterLow) of c returns (rows, err) at once.
OnceRows(c, filterLow, rows, err, fault) ==
  /\ ret' = [NoRet EXCEPT !.caller = c, !.op = "GetAll", !.filterLow = filterLow,
                          !.rows = rows, !.ok = (err = "nil"), !.err = err,
                          !.fault = fault]
  /\ UNCHANGED call

Goto(c, pc) ==
  call' = [call EXCEPT ![c].pc = pc]

\* ------------------------------------------------------------ SQLite locks
\* What a statement of c's transaction reads.
ViewQuotes(c) ==
  IF writer = c THEN pq ELSE quotes

ViewVotes(c) ==
  IF writer = c THEN pv ELSE votes

\* A statement of c's transaction may write: RESERVED is free or c's own.
CanReserve(c) ==
  writer \in {None, c}

\* c's transaction writes (qs, vs), taking RESERVED.
TxWrite(c, qs, vs) ==
  /\ writer' = c
  /\ pq' = qs
  /\ pv' = vs
  /\ UNCHANGED <<shared, leakedShared>>

\* c's transaction reads, taking SHARED.
TxRead(c) ==
  /\ shared' = shared \cup {c}
  /\ UNCHANGED <<writer, pq, pv, leakedShared>>

\* Mutant: a commit does not wait for the readers.
CanCommitAlways(c) ==
  TRUE

\* A commit of writes needs EXCLUSIVE: no other transaction holds SHARED.
CanCommit(c) ==
  /\ shared \ {c} = {}
  /\ ~leakedShared

\* A statement outside any transaction writes and commits at once.
CanAutoCommit ==
  /\ writer = None
  /\ shared = {}
  /\ ~leakedShared

\* Mutant: the commit adds the transaction's rows to the committed ones and
\* loses its deletes.
TxCommitMerge(c) ==
  /\ writer = c => CanCommit(c)
  /\ quotes' = quotes \cup ViewQuotes(c)
  /\ votes' = votes \cup ViewVotes(c)
  /\ writer' = IF writer = c THEN None ELSE writer
  /\ pq' = IF writer = c THEN {} ELSE pq
  /\ pv' = IF writer = c THEN {} ELSE pv
  /\ shared' = shared \ {c}
  /\ UNCHANGED leakedShared

\* tx.Commit() of c's transaction succeeds: its writes become the tables.
TxCommit(c) ==
  /\ writer = c => CanCommit(c)
  /\ quotes' = ViewQuotes(c)
  /\ votes' = ViewVotes(c)
  /\ writer' = IF writer = c THEN None ELSE writer
  /\ pq' = IF writer = c THEN {} ELSE pq
  /\ pv' = IF writer = c THEN {} ELSE pv
  /\ shared' = shared \ {c}
  /\ UNCHANGED leakedShared

\* tx.Rollback() of c's transaction, and a failed tx.Commit(), which
\* database/sql and the driver end the same way: the writes are dropped.
TxRollback(c) ==
  /\ writer' = IF writer = c THEN None ELSE writer
  /\ pq' = IF writer = c THEN {} ELSE pq
  /\ pv' = IF writer = c THEN {} ELSE pv
  /\ shared' = shared \ {c}
  /\ UNCHANGED leakedShared

\* c returns without ending its transaction: the transaction's connection is
\* never handed back, so its locks stay and its writes are never committed.
TxLeak(c) ==
  /\ writer' = IF writer = c THEN Leaked ELSE writer
  /\ pq' = IF writer = c THEN {} ELSE pq
  /\ pv' = IF writer = c THEN {} ELSE pv
  /\ leakedShared' = (leakedShared \/ c \in shared)
  /\ shared' = shared \ {c}

\* ------------------------------------------------------------ credentials
\* strings.SplitN(webAuth, ":", 2): the string itself when it has no colon,
\* else what is before and what is after its first colon.
SplitN(str) ==
  LET colons == {i \in DOMAIN str : str[i] = ":"}
  IN IF colons = {}
     THEN <<str>>
     ELSE LET i == CHOOSE k \in colons : \A l \in colons : k <= l
          IN <<SubSeq(str, 1, i - 1), SubSeq(str, i + 1, Len(str))>>

\* bcrypt.GenerateFromPassword: a hash, never empty, that only this password
\* matches.
GenerateFromPassword(pass) ==
  <<"$2a$">> \o pass

\* bcrypt.CompareHashAndPassword(hash, pwd) returns nil.
CompareHashAndPassword(hash, pwd) ==
  hash = GenerateFromPassword(pwd)

\* OpenDB's user: splits[0] when webAuth is not empty and splits in two.
\* part_000's OpenDB(filename) takes no webAuth.
WebUser(webAuth) ==
  IF rev # "part_000" /\ Len(webAuth) # 0 /\ Len(SplitN(webAuth)) = 2
  THEN SplitN(webAuth)[1]
  ELSE <<>>

\* OpenDB's hash: the bcrypt hash of splits[1].
WebHash(webAuth) ==
  IF rev # "part_000" /\ Len(webAuth) # 0 /\ Len(SplitN(webAuth)) = 2
  THEN GenerateFromPassword(SplitN(webAuth)[2])
  ELSE <<>>

\* The webAuth arguments OpenDB is given: none, user and password, a user
\* without a colon, a password without a user.
WebAuths ==
  {<<>>, <<"u", ":", "p">>, <<"u">>, <<":", "p">>}

\* ------------------------------------------------------------------- Init
\* The engine OpenDB(filename, webAuth) returns on a new file.
Opened(webAuth) ==
  /\ rev \in Revisions
  /\ webuser = WebUser(webAuth)
  /\ webhash = WebHash(webAuth)
  /\ quotes = {}
  /\ votes = {}
  /\ seq = 0
  /\ nQuotes = 0
  /\ dbOpen = TRUE
  /\ now = 0
  /\ mu = None
  /\ call = [c \in Callers |-> NoCall]
  /\ writer = None
  /\ pq = {}
  /\ pv = {}
  /\ shared = {}
  /\ leakedShared = FALSE
  /\ ret = NoRet
  /\ issued = {}
  /\ pool = TRUE
  /\ opening = "none"

\* The engine opened without credentials.
Init ==
  Opened(<<>>)

\* The engine opened with or without credentials, for the web server.
InitWeb ==
  \E webAuth \in WebAuths : Opened(webAuth)

\* The clock advances.
Tick ==
  /\ ret = NoRet
  /\ now < MaxTime
  /\ now' = now + 1
  /\ UNCHANGED <<rev, dbOpen, issued, pool, opening, webuser, webhash, store,
                  nQuotes, mu, call, locks, ret>>

\* -------------------------------------------------------------- AddQuote
\* q.Lock(); defer q.Unlock()
AddQuoteLock(c, author, text) ==
  /\ Ready(c)
  /\ dbOpen
  /\ mu = None
  /\ NextId(quotes, seq) <= MaxId
  /\ nQuotes < MaxCount
  /\ mu' = c
  /\ Enter(c, "AddQuote", "exec", 0, "", author, text)
  /\ UNCHANGED <<env, store, nQuotes, locks, ret>>

\* res, err = q.db.Exec(sqlAdd, time.Now().Unix(), author, quote), and the
\* return on err (part_000 has no such return and goes on to the increment).
\* res.LastInsertId() never fails in the sqlite3 driver.
AddQuoteExec(c) ==
  /\ At(c, "exec")
  /\ \/ /\ CanAutoCommit
        /\ LET id == NextId(quotes, seq)
           IN /\ quotes' = quotes \cup {[id |-> id, date |-> now,
                                          author |-> call[c].author,
                                          quote |-> call[c].text]}
              /\ seq' = IF rev = "part_001" THEN id ELSE seq
              /\ issued' = issued \cup {id}
              /\ call' = [call EXCEPT ![c].pc = "inc", ![c].n = id]
        /\ UNCHANGED <<votes, mu, ret>>
     \/ /\ IF rev = "part_000"
           THEN /\ call' = [call EXCEPT ![c].pc = "inc", ![c].err = "store",
                                        ![c].fault = TRUE]
                /\ UNCHANGED <<mu, ret>>
           ELSE /\ Return(c, FALSE, "store", 0, 0, TRUE)
                /\ mu' = None
        /\ UNCHANGED <<store, issued>>
  /\ UNCHANGED <<rev, dbOpen, now, pool, opening, webuser, webhash, nQuotes, locks>>

\* q.nQuotes++; return (and the deferred q.Unlock())
AddQuoteInc(c) ==
  /\ At(c, "inc")
  /\ nQuotes' = nQuotes + 1
  /\ mu' = None
  /\ Return(c, call[c].err = "nil", call[c].err, call[c].n, 0, FALSE)
  /\ UNCHANGED <<env, store, locks>>

\* -------------------------------------------------------------- DelQuote
\* Mutant: the foreign key is not enforced (no _foreign_keys=1).
HasVotesUnchecked(vs, id) ==
  FALSE

\* The quote with this id has votes: sqlDel breaks the foreign key of votes.
HasVotes(vs, id) ==
  \E r \in vs : r.quote_id = id

\* part_000 and quotes.go: q.db.Exec(sqlDel, id) and res.RowsAffected(),
\* outside any transaction.
DelQuoteExec(c, id) ==
  /\ Ready(c)
  /\ dbOpen
  /\ rev # "part_001"
  /\ \/ /\ CanAutoCommit
        /\ ~HasVotes(votes, id)
        /\ quotes' = DeleteQuoteRow(quotes, id)
        /\ IF RowsAffected(quotes, id) = 1
           THEN /\ Enter(c, "DelQuote", "dec", id, "", "", "")
                /\ UNCHANGED ret
           ELSE Once(c, "DelQuote", id, "", "", "", FALSE, "nil", 0, 0, FALSE)
     \/ /\ CanAutoCommit
        /\ HasVotes(votes, id)
        /\ Once(c, "DelQuote", id, "", "", "", FALSE, "constraint", 0, 0, FALSE)
        /\ UNCHANGED quotes
     \/ /\ Once(c, "DelQuote", id, "", "", "", FALSE, "store", 0, 0, TRUE)
        /\ UNCHANGED quotes
  /\ UNCHANGED <<env, votes, seq, nQuotes, mu, locks>>

\* part_001: tx, err := q.db.BeginTx(...)
DelQuoteBegin(c, id) ==
  /\ Ready(c)
  /\ dbOpen
  /\ rev = "part_001"
  /\ \/ /\ Enter(c, "DelQuote", "delvotes", id, "", "", "")
        /\ UNCHANGED ret
     \/ Once(c, "DelQuote", id, "", "", "", FALSE, "store", 0, 0, TRUE)
  /\ UNCHANGED <<env, store, nQuotes, mu, locks>>

\* Mutant: the votes are deleted by q.db.Exec, outside the transaction.
DelQuoteDelVotesNoTx(c) ==
  /\ At(c, "delvotes")
  /\ \/ /\ CanAutoCommit
        /\ votes' = DeleteVotesOf(votes, call[c].id)
        /\ Goto(c, "del")
        /\ UNCHANGED <<ret, quotes, seq, locks>>
     \/ /\ TxRollback(c)
        /\ Return(c, FALSE, "store", 0, 0, TRUE)
        /\ UNCHANGED store
  /\ UNCHANGED <<env, nQuotes, mu>>

\* part_001: tx.Exec(sqlDelVotes, id), and the rollback when it fails
DelQuoteDelVotes(c) ==
  /\ At(c, "delvotes")
  /\ \/ /\ CanReserve(c)
        /\ TxWrite(c, ViewQuotes(c), DeleteVotesOf(ViewVotes(c), call[c].id))
        /\ Goto(c, "del")
        /\ UNCHANGED ret
     \/ /\ TxRollback(c)
        /\ Return(c, FALSE, "store", 0, 0, TRUE)
  /\ UNCHANGED <<env, store, nQuotes, mu>>

\* part_001: res, err = tx.Exec(sqlDel, id); deleted, err = res.RowsAffected()
DelQuoteDel(c) ==
  /\ At(c, "del")
  /\ \/ /\ CanReserve(c)
        /\ ~HasVotes(ViewVotes(c), call[c].id)
        /\ TxWrite(c, DeleteQuoteRow(ViewQuotes(c), call[c].id), ViewVotes(c))
        /\ call' = [call EXCEPT ![c].pc = "commit",
                                ![c].n = RowsAffected(ViewQuotes(c), call[c].id)]
        /\ UNCHANGED ret
     \/ /\ TxRollback(c)
        /\ Return(c, FALSE, "store", 0, 0, TRUE)
  /\ UNCHANGED <<env, store, nQuotes, mu>>

\* part_001: tx.Commit(), then `if deleted != 1 { return false, nil }`
DelQuoteCommit(c) ==
  /\ At(c, "commit")
  /\ call[c].op = "DelQuote"
  /\ \/ /\ TxCommit(c)
        /\ IF call[c].n = 1
           THEN /\ Goto(c, "dec")
                /\ UNCHANGED ret
           ELSE Return(c, FALSE, "nil", 0, 0, FALSE)
     \/ /\ TxRollback(c)
        /\ Return(c, FALSE, "commit", 0, 0, TRUE)
        /\ UNCHANGED <<quotes, votes>>
  /\ UNCHANGED <<env, seq, nQuotes, mu>>

\* q.Lock(); q.nQuotes--; q.Unlock(); return true, nil
DelQuoteDec(c) ==
  /\ At(c, "dec")
  /\ mu = None
  /\ nQuotes' = nQuotes - 1
  /\ Return(c, TRUE, "nil", 0, 0, FALSE)
  /\ UNCHANGED <<env, store, mu, locks>>

\* -------------------------------------------------------------- EditQuote
\* q.db.Exec(sqlEdit, quote, id); return r == 1, nil
EditQuote(c, id, text) ==
  /\ Ready(c)
  /\ dbOpen
  /\ \/ /\ CanAutoCommit
        /\ quotes' = EditQuoteRow(quotes, id, text)
        /\ Once(c, "EditQuote", id, "", "", text, RowsAffected(quotes, id) = 1,
                "nil", 0, 0, FALSE)
     \/ /\ Once(c, "EditQuote", id, "", "", text, FALSE, "store", 0, 0, TRUE)
        /\ UNCHANGED quotes
  /\ UNCHANGED <<env, votes, seq, nQuotes, mu, locks>>

\* ------------------------------------------------ Upvote, Downvote, Unvote
VoteOps == {"Upvote", "Downvote", "Unvote"}

\* tx, err := q.db.BeginTx(...); if err != nil { return false, err }
VoteBegin(c, op, id, voter) ==
  /\ Ready(c)
  /\ dbOpen
  /\ rev # "part_000"
  /\ \/ /\ Enter(c, op, "hasquote", id, voter, "", "")
        /\ UNCHANGED ret
     \/ Once(c, op, id, voter, "", "", FALSE, "store", 0, 0, TRUE)
  /\ UNCHANGED <<env, store, nQuotes, mu, locks>>

\* tx.QueryRow(sqlHasQuote, id).Scan(&quoteExists), and the two returns after
\* it: the query failed, or quoteExists == 0 ("Not a valid id").  Both
\* revisions roll back first.
VoteHasQuote(c) ==
  /\ At(c, "hasquote")
  /\ \/ /\ HasQuote(ViewQuotes(c), call[c].id)
        /\ TxRead(c)
        /\ Goto(c, "hasvote")
        /\ UNCHANGED ret
     \/ /\ ~HasQuote(ViewQuotes(c), call[c].id)
        /\ TxRollback(c)
        /\ Return(c, FALSE, "notvalid", 0, 0, FALSE)
     \/ /\ TxRollback(c)
        /\ Return(c, FALSE, "store", 0, 0, TRUE)
  /\ UNCHANGED <<env, store, nQuotes, mu>>

\* Mutant: a vote in the same direction is cast again.
NothingToDoUnvoteOnly(op, vote) ==
  op = "Unvote" /\ vote = 0

\* The vote op has nothing to write: Upvote on +1, Downvote on -1, Unvote on
\* no row (sql.ErrNoRows).
NothingToDo(op, vote) ==
  \/ op = "Upvote" /\ vote > 0
  \/ op = "Downvote" /\ vote < 0
  \/ op = "Unvote" /\ vote = 0

\* What a failed sqlHasVote query returns as the call's error: quotes.go's
\* Upvote and Downvote `return false, nil`; Unvote, and all of part_001,
\* return the error.
HasVoteErr(op) ==
  IF rev = "quotes.go" /\ op \in {"Upvote", "Downvote"} THEN "nil" ELSE "store"

\* tx.QueryRow(sqlHasVote, id, voter).Scan(&vote) and the switch on vote.
\* With nothing to do quotes.go rolls back and returns false, nil at once;
\* part_001 leaves runTx with nil and goes on to tx.Commit().
VoteHasVote(c) ==
  /\ At(c, "hasvote")
  /\ \/ LET vote == HasVote(ViewVotes(c), call[c].id, call[c].voter)
        IN IF NothingToDo(call[c].op, vote)
           THEN IF rev = "quotes.go"
                THEN /\ TxRollback(c)
                     /\ ret' = [caller |-> c, op |-> call[c].op, id |-> call[c].id,
                                voter |-> call[c].voter, text |-> "", author |-> "",
                                vote |-> vote, ok |-> FALSE, err |-> "nil",
                                n |-> 0, m |-> 0, fault |-> FALSE,
                                filterLow |-> FALSE, rows |-> <<>>,
                                req |-> NoReq, status |-> 0]
                     /\ call' = [call EXCEPT ![c] = NoCall]
                ELSE /\ TxRead(c)
                     /\ call' = [call EXCEPT ![c].pc = "commit", ![c].vote = vote]
                     /\ UNCHANGED ret
           ELSE /\ TxRead(c)
                /\ call' = [call EXCEPT ![c].vote = vote,
                                        ![c].pc = IF vote = 0 THEN "insert"
                                                  ELSE "unvote"]
                /\ UNCHANGED ret
     \/ /\ TxRollback(c)
        /\ Return(c, FALSE, HasVoteErr(call[c].op), 0, 0, TRUE)
  /\ UNCHANGED <<env, store, nQuotes, mu>>

\* The failed statement's transaction is rolled back before the return.
\* quotes.go returns without tx.Rollback() when Upvote's insert fails and
\* when Unvote's delete fails.
RollsBack(op, pc) ==
  ~ /\ rev = "quotes.go"
    /\ \/ op = "Upvote" /\ pc = "insert"
       \/ op = "Unvote" /\ pc = "unvote"

\* A statement of the transaction failed: roll back (or not) and return the
\* error.
VoteFail(c) ==
  /\ IF RollsBack(call[c].op, call[c].pc) THEN TxRollback(c) ELSE TxLeak(c)
  /\ Return(c, FALSE, "store", 0, 0, TRUE)

\* tx.Exec(sqlUnvote, id, voter): the old vote of the other direction goes
\* (Upvote, Downvote), or the vote goes (Unvote).
VoteUnvote(c) ==
  /\ At(c, "unvote")
  /\ \/ /\ CanReserve(c)
        /\ TxWrite(c, ViewQuotes(c),
                   DeleteVote(ViewVotes(c), call[c].id, call[c].voter))
        /\ Goto(c, IF call[c].op = "Unvote" THEN "commit" ELSE "insert")
        /\ UNCHANGED ret
     \/ VoteFail(c)
  /\ UNCHANGED <<env, store, nQuotes, mu>>

\* The vote column sqlUpvote / sqlDownvote write.
VoteOf(op) ==
  IF op = "Upvote" THEN 1 ELSE -1

\* tx.Exec(sqlUpvote | sqlDownvote, id, voter, time.Now().Unix())
VoteInsert(c) ==
  /\ At(c, "insert")
  /\ \/ /\ CanReserve(c)
        /\ VotePrimaryKeyFree(ViewVotes(c), call[c].id, call[c].voter)
        /\ VoteForeignKeyOK(ViewQuotes(c), call[c].id)
        /\ TxWrite(c, ViewQuotes(c),
                   InsertVote(ViewVotes(c), call[c].id, call[c].voter,
                              VoteOf(call[c].op), now))
        /\ Goto(c, "commit")
        /\ UNCHANGED ret
     \/ VoteFail(c)
  /\ UNCHANGED <<env, store, nQuotes, mu>>

\* Mutant: every committed vote op returns true.
AppliedAlways(op, vote) ==
  TRUE

\* What the vote op returns after its commit: quotes.go's `return true, nil`;
\* part_001's `return !alreadyVoted, nil` and `return actuallyDeleted, nil`.
Applied(op, vote) ==
  IF rev = "quotes.go" THEN TRUE ELSE ~NothingToDo(op, vote)

\* tx.Commit() and the return after it
VoteCommit(c) ==
  /\ At(c, "commit")
  /\ call[c].op \in VoteOps
  /\ \/ /\ TxCommit(c)
        /\ Return(c, Applied(call[c].op, call[c].vote), "nil", 0, 0, FALSE)
     \/ /\ TxRollback(c)
        /\ Return(c, FALSE, "store", 0, 0, TRUE)
        /\ UNCHANGED <<quotes, votes>>
  /\ UNCHANGED <<env, seq, nQuotes, mu>>

\* ------------------------------------------------------------------ Votes
\* q.db.QueryRow(sqlGetUpvotes, id).Scan(&up)
VotesUp(c, id) ==
  /\ Ready(c)
  /\ dbOpen
  /\ rev # "part_000"
  /\ \/ /\ call' = [call EXCEPT ![c] = [NoCall EXCEPT !.op = "Votes", !.pc = "down",
                                         !.id = id, !.n = GetUpvotes(votes, id)]]
        /\ UNCHANGED ret
     \/ Once(c, "Votes", id, "", "", "", FALSE, "store", 0, 0, TRUE)
  /\ UNCHANGED <<env, store, nQuotes, mu, locks>>

\* The query Votes scans into down: sqlGetDownvotes in part_001, sqlGetUpvotes
\* once more in quotes.go.
VotesSecond(vs, id) ==
  IF rev = "quotes.go" THEN GetUpvotes(vs, id) ELSE GetDownvotes(vs, id)

\* q.db.QueryRow(...).Scan(&down); return up, down, nil
VotesDown(c) ==
  /\ At(c, "down")
  /\ \/ Return(c, TRUE, "nil", call[c].n, VotesSecond(votes, call[c].id), FALSE)
     \/ Return(c, FALSE, "store", 0, 0, TRUE)
  /\ UNCHANGED <<env, store, nQuotes, mu, locks>>

\* ------------------------------------------------------------ RandomQuote
\* Mutant: the query has no WHERE clause.
RandomCandidatesAll(qs, vs) ==
  qs

\* Mutant: the query compares the score with the threshold plus one.
RandomCandidatesOffByOne(qs, vs) ==
  {r \in qs : Score(vs, r.id) > quoteThreshold + 1}

\* The rows sqlGetRandom (part_000: sqlGet) orders by RANDOM(): those with
\* (upvotes - downvotes) > quoteThresholdStr; every row in part_000.
RandomCandidates(qs, vs) ==
  IF rev = "part_000"
  THEN qs
  ELSE {r \in qs : Score(vs, r.id) > quoteThreshold}

\* q.db.QueryRow(sqlGetRandom).Scan(...): one of the candidates, or
\* sql.ErrNoRows when there is none.
RandomQuote(c) ==
  /\ Ready(c)
  /\ dbOpen
  /\ \/ \E r \in RandomCandidates(quotes, votes) :
          Once(c, "RandomQuote", r.id, "", r.author, r.quote, TRUE, "nil",
               GetUpvotes(votes, r.id), GetDownvotes(votes, r.id), FALSE)
     \/ /\ RandomCandidates(quotes, votes) = {}
        /\ Once(c, "RandomQuote", 0, "", "", "", FALSE, "norows", 0, 0, FALSE)
     \/ Once(c, "RandomQuote", 0, "", "", "", FALSE, "store", 0, 0, TRUE)
  /\ UNCHANGED <<env, store, nQuotes, mu, locks>>

\* --------------------------------------------------------------- GetQuote
\* q.db.QueryRow(sqlGetByID, id).Scan(...) (part_000: sqlGetId): the row with
\* this id and its vote counts, or sql.ErrNoRows.
GetQuote(c, id) ==
  /\ Ready(c)
  /\ dbOpen
  /\ \/ \E r \in {q \in quotes : q.id = id} :
          Once(c, "GetQuote", r.id, "", r.author, r.quote, TRUE, "nil",
               GetUpvotes(votes, r.id), GetDownvotes(votes, r.id), FALSE)
     \/ /\ HasQuote(quotes, id) = FALSE
        /\ Once(c, "GetQuote", id, "", "", "", FALSE, "norows", 0, 0, FALSE)
     \/ Once(c, "GetQuote", id, "", "", "", FALSE, "store", 0, 0, TRUE)
  /\ UNCHANGED <<env, store, nQuotes, mu, locks>>

\* ----------------------------------------------------------------- GetAll
\* The row of the result set for quote r: its columns and the two COUNT(*)
\* subqueries.
QuoteRow(r, vs) ==
  [id |-> r.id, date |-> r.date, author |-> r.author, quote |-> r.quote,
   upvotes |-> GetUpvotes(vs, r.id), downvotes |-> GetDownvotes(vs, r.id)]

\* Mutant: ORDER BY q.id, ascending.
RECURSIVE OrderByIdAsc(_)
OrderByIdAsc(rs) ==
  IF rs = {} THEN <<>>
  ELSE LET first == CHOOSE r \in rs : \A o \in rs : o.id >= r.id
       IN <<first>> \o OrderByIdAsc(rs \ {first})

\* ORDER BY q.id desc
RECURSIVE OrderByIdDesc(_)
OrderByIdDesc(rs) ==
  IF rs = {} THEN <<>>
  ELSE LET first == CHOOSE r \in rs : \A o \in rs : o.id <= r.id
       IN <<first>> \o OrderByIdDesc(rs \ {first})

\* Mutant: the filtered query keeps the rows at the threshold too.
GetAllRowsInclusive(qs, vs, filterLow) ==
  OrderByIdDesc({QuoteRow(r, vs) :
                   r \in {q \in qs : filterLow => Score(vs, q.id) >= quoteThreshold}})

\* sqlGetAll and sqlGetAllFiltered: the latter keeps the rows with
\* (upvotes - downvotes) > quoteThresholdStr.
GetAllRows(qs, vs, filterLow) ==
  OrderByIdDesc({QuoteRow(r, vs) :
                   r \in {q \in qs : filterLow => Score(vs, q.id) > quoteThreshold}})

\* query := sqlGetAll; if filterLow { query = sqlGetAllFiltered };
\* rows, err := q.db.Query(query); the loop over rows.Next() appends each row.
GetAll(c, filterLow) ==
  /\ Ready(c)
  /\ dbOpen
  /\ rev # "part_000"
  /\ \/ OnceRows(c, filterLow, GetAllRows(quotes, votes, filterLow), "nil", FALSE)
     \/ OnceRows(c, filterLow, <<>>, "store", TRUE)
  /\ UNCHANGED <<env, store, nQuotes, mu, locks>>

\* ------------------------------------------------------------- quotesRoot
\* The result of the handler: the status written, the quotes of the page, the
\* number of engine queries made.
Respond(c, req, status, rows, queries, err) ==
  /\ ret' = [NoRet EXCEPT !.caller = c, !.op = "quotesRoot", !.req = req,
                          !.status = status, !.rows = rows, !.n = queries,
                          !.ok = (status = 200), !.err = err,
                          !.filterLow = ~req.all, !.fault = (err # "nil")]
  /\ UNCHANGED call

\* Mutant: equal scores are ordered by ascending id.
LessTieAscending(iquote, jquote) ==
  LET ivotes == iquote.upvotes - iquote.downvotes
      jvotes == jquote.upvotes - jquote.downvotes
  IN ivotes > jvotes \/ (ivotes = jvotes /\ iquote.id < jquote.id)

\* The less function given to sort.Slice:
\* ivotes > jvotes || (ivotes == jvotes && iquote.ID > jquote.ID)
Less(iquote, jquote) ==
  LET ivotes == iquote.upvotes - iquote.downvotes
      jvotes == jquote.upvotes - jquote.downvotes
  IN ivotes > jvotes \/ (ivotes = jvotes /\ iquote.id > jquote.id)

\* s without its i-th element.
RemoveAt(s, i) ==
  SubSeq(s, 1, i - 1) \o SubSeq(s, i + 1, Len(s))

\* sort.Slice(data.Quotes, less): the elements of the slice, each before all
\* those that are not less than it.
RECURSIVE SortSlice(_)
SortSlice(s) ==
  IF s = <<>> THEN <<>>
  ELSE LET i == CHOOSE k \in DOMAIN s : \A l \in DOMAIN s : ~Less(s[l], s[k])
       IN <<s[i]>> \o SortSlice(RemoveAt(s, i))

\* Mutant: the password is not compared.
AuthorizedUserOnly(req) ==
  (Len(webuser) # 0 \/ Len(webhash) # 0)
    => /\ req.auth
       /\ webuser = req.user

\* The request passes the check of r.BasicAuth() against q.webuser and
\* q.webhash, or there is nothing to check.
Authorized(req) ==
  (Len(webuser) # 0 \/ Len(webhash) # 0)
    => /\ req.auth
       /\ webuser = req.user
       /\ CompareHashAndPassword(webhash, req.pwd)

\* The requests: credentials or none, path, ?all=true, ?votesort=true.
Requests ==
  {r \in [auth : BOOLEAN, user : {<<>>, <<"u">>, <<"v">>},
          pwd : {<<>>, <<"p">>, <<"q">>}, path : {"/", "/x"}, all : BOOLEAN,
          votesort : BOOLEAN] :
     IF r.auth THEN r.user # <<>> /\ r.pwd # <<>> ELSE r.user = <<>> /\ r.pwd = <<>>}

\* quotesRoot(w, r): 401 without the credentials, 404 off the root path,
\* quotes, err := q.GetAll(!showAll) and 500 when it fails, the sort when
\* votesort is asked for, and the page, or 500 when the template fails.
QuotesRoot(c, req) ==
  /\ Ready(c)
  /\ dbOpen
  /\ rev # "part_000"
  /\ IF ~Authorized(req)
     THEN Respond(c, req, 401, <<>>, 0, "nil")
     ELSE IF req.path # "/"
     THEN Respond(c, req, 404, <<>>, 0, "nil")
     ELSE \/ Respond(c, req, 500, <<>>, 1, "store")
          \/ LET rows == GetAllRows(quotes, votes, ~req.all)
             IN \/ Respond(c, req, 200,
                           IF req.votesort THEN SortSlice(rows) ELSE rows, 1, "nil")
                \/ Respond(c, req, 500, <<>>, 1, "template")
  /\ UNCHANGED <<env, store, nQuotes, mu, locks>>

\* ---------------------------------------------------------------- NQuotes
\* q.RLock(); defer q.RUnlock(); return q.nQuotes
NQuotes(c) ==
  /\ Ready(c)
  /\ mu = None
  /\ Once(c, "NQuotes", 0, "", "", "", TRUE, "nil", nQuotes, 0, FALSE)
  /\ UNCHANGED <<env, store, nQuotes, mu, locks>>

\* ---------------------------------------------------------- Close, OpenDB
Quiet ==
  \A c \in Callers : Ready(c)

\* The caller takes the values its call returned.
Deliver ==
  /\ ret # NoRet
  /\ ret' = NoRet
  /\ UNCHANGED <<env, store, nQuotes, mu, call, locks>>

\* err := q.db.Close(); q.db = nil.  Closing the pool closes every
\* connection, those of transactions never ended too.
Close ==
  /\ dbOpen
  /\ Quiet
  /\ dbOpen' = FALSE
  /\ pool' = FALSE
  /\ writer' = None
  /\ leakedShared' = FALSE
  /\ UNCHANGED <<rev, now, issued, opening, webuser, webhash, store, nQuotes, mu,
                  call, pq, pv, shared, ret>>

\* OpenDB returns (qdb, err) to the program: qdb is the engine when ok.
OpenDBReturn(ok, err) ==
  ret' = [NoRet EXCEPT !.caller = "main", !.op = "OpenDB", !.ok = ok, !.err = err,
                       !.fault = ~ok]

\* Mutant: OpenDB returns the error without closing qdb.
OpenDBFailNoClose(err) ==
  /\ opening' = "none"
  /\ OpenDBReturn(FALSE, err)
  /\ UNCHANGED <<pool, dbOpen, nQuotes>>

\* if err != nil { defer qdb.Close(); return nil, err }
OpenDBFail(err) ==
  /\ pool' = FALSE
  /\ opening' = "none"
  /\ OpenDBReturn(FALSE, err)
  /\ UNCHANGED <<dbOpen, nQuotes>>

\* OpenDB on the same file: db, err := sql.Open("sqlite3", ...) and the
\* return of its error; qdb := &QuoteDB{db: db, ...}
OpenDB ==
  /\ ret = NoRet
  /\ ~dbOpen
  /\ opening = "none"
  /\ \/ /\ pool' = TRUE
        /\ opening' = "create"
        /\ UNCHANGED ret
     \/ /\ OpenDBReturn(FALSE, "open")
        /\ UNCHANGED <<pool, opening>>
  /\ UNCHANGED <<rev, now, issued, webuser, webhash, dbOpen, store, nQuotes, mu,
                  call, locks>>

\* err = qdb.createTable(): every statement is CREATE ... IF NOT EXISTS, so on
\* success the tables are as they were.
OpenDBCreateTable ==
  /\ ret = NoRet
  /\ opening = "create"
  /\ \/ /\ opening' = "count"
        /\ UNCHANGED <<pool, dbOpen, nQuotes, ret>>
     \/ OpenDBFail("create")
  /\ UNCHANGED <<rev, now, issued, webuser, webhash, store, mu, call, locks>>

\* err = qdb.getCount(), loading nQuotes from sqlGetCount; return qdb, nil
OpenDBGetCount ==
  /\ ret = NoRet
  /\ opening = "count"
  /\ \/ /\ nQuotes' = GetCount(quotes)
        /\ dbOpen' = TRUE
        /\ opening' = "none"
        /\ OpenDBReturn(TRUE, "nil")
        /\ UNCHANGED pool
     \/ OpenDBFail("count")
  /\ UNCHANGED <<rev, now, issued, webuser, webhash, store, mu, call, locks>>

\* A call on the closed engine: q.db is nil, and the first use of it
\* dereferences a nil *sql.DB.
CallOnClosed(c, op) ==
  /\ ~dbOpen
  /\ Ready(c)
  /\ Once(c, op, 0, "", "", "", FALSE, "panic", 0, 0, FALSE)
  /\ UNCHANGED <<env, store, nQuotes, mu, locks>>

\* ------------------------------------------------------------------- Next
QuoteIds == 1..MaxId

DbOps == {"AddQuote", "DelQuote", "EditQuote", "Upvote", "Downvote", "Unvote",
          "Votes", "RandomQuote", "GetQuote", "GetAll"}

\* One step of caller c, its arguments drawn from ids, voters and texts.
Step(c, ids, voters, texts) ==
  \/ \E a \in Authors, t \in texts : AddQuoteLock(c, a, t)
  \/ AddQuoteExec(c)
  \/ AddQuoteInc(c)
  \/ \E id \in ids : DelQuoteExec(c, id)
  \/ \E id \in ids : DelQuoteBegin(c, id)
  \/ DelQuoteDelVotes(c)
  \/ DelQuoteDel(c)
  \/ DelQuoteCommit(c)
  \/ DelQuoteDec(c)
  \/ \E id \in ids, t \in texts : EditQuote(c, id, t)
  \/ \E op \in VoteOps, id \in ids, v \in voters : VoteBegin(c, op, id, v)
  \/ VoteHasQuote(c)
  \/ VoteHasVote(c)
  \/ VoteUnvote(c)
  \/ VoteInsert(c)
  \/ VoteCommit(c)
  \/ \E id \in ids : VotesUp(c, id)
  \/ VotesDown(c)
  \/ RandomQuote(c)
  \/ \E id \in ids : GetQuote(c, id)
  \/ \E f \in BOOLEAN : GetAll(c, f)
  \/ NQuotes(c)
  \/ \E op \in DbOps : CallOnClosed(c, op)

\* One caller makes its calls one after the other, all in the same second.
Next ==
  \/ Step("c1", QuoteIds, Voters, Texts)
  \/ Close
  \/ OpenDB
  \/ OpenDBCreateTable
  \/ OpenDBGetCount
  \/ Deliver

Spec ==
  Init /\ [][Next]_vars

\* The calls on one quote id and with one text.
ConcIds == {1}
ConcVoters == {"x", "y"}
ConcTexts == {"Q1"}

\* One caller makes its calls on one quote id, with the clock running.
NextClock ==
  \/ Step("c1", ConcIds, ConcVoters, ConcTexts)
  \/ Tick
  \/ Close
  \/ OpenDB
  \/ OpenDBCreateTable
  \/ OpenDBGetCount
  \/ Deliver

SpecClock ==
  Init /\ [][NextClock]_vars

\* Concurrent callers, their steps interleaved.

NextConc ==
  \/ \E c \in Callers : Step(c, ConcIds, ConcVoters, ConcTexts)
  \/ Close
  \/ OpenDB
  \/ OpenDBCreateTable
  \/ OpenDBGetCount
  \/ Deliver

SpecConc ==
  Init /\ [][NextConc]_vars

\* Enough voters to take a quote's score below the threshold.
FilterVoters == {"x", "y", "z"}

\* One caller makes its calls on one quote id, three voters voting.
NextFilter ==
  \/ Step("c1", ConcIds, FilterVoters, ConcTexts)
  \/ Close
  \/ OpenDB
  \/ OpenDBCreateTable
  \/ OpenDBGetCount
  \/ Deliver

SpecFilter ==
  Init /\ [][NextFilter]_vars

\* One caller calls the engine while the web server answers requests.
NextWeb ==
  \/ Step("c1", ConcIds, ConcVoters, ConcTexts)
  \/ \E req \in Requests : QuotesRoot("c1", req)
  \/ Close
  \/ OpenDB
  \/ OpenDBCreateTable
  \/ OpenDBGetCount
  \/ Deliver

SpecWeb ==
  InitWeb /\ [][NextWeb]_vars

\* ============================================================== properties
\* What the properties say of the store, in their own words.
QuoteExists(qs, id) ==
  id \in {r.id : r \in qs}

RowsOfPair(vs, id, voter) ==
  {r \in vs : r.quote_id = id /\ r.voter = voter}

\* The state of a (quote, voter) pair: none, up or down.
PairState(vs, id, voter) ==
  IF \E r \in RowsOfPair(vs, id, voter) : r.vote = 1 THEN "up"
  ELSE IF \E r \in RowsOfPair(vs, id, voter) : r.vote = -1 THEN "down"
  ELSE "none"

\* The transition table of the vote state machine: the state an operation
\* leaves the pair in, and the boolean it returns.
EffectOf(op) ==
  CASE op = "Upvote" -> "up"
    [] op = "Downvote" -> "down"
    [] OTHER -> "none"

TableTo(op, s) ==
  EffectOf(op)

TableOk(op, s) ==
  s # TableTo(op, s)

\* This step is the return of a call.
Returns ==
  /\ ret = NoRet
  /\ ret' # NoRet

\* This step is a step of caller c.
StepOf(c) ==
  \/ call'[c] # call[c]
  \/ Returns /\ ret'.caller = c

\* C1: in every reachable state, whatever the interleaving of the callers'
\* Upvote, Downvote and Unvote calls, the vote ledger (as committed, and as
\* the writing transaction has it) holds at most one row per (quote_id, voter).
C1_OneRowPerPair ==
  \A id \in QuoteIds, v \in Voters :
    /\ Cardinality(RowsOfPair(votes, id, v)) <= 1
    /\ Cardinality(RowsOfPair(pv, id, v)) <= 1

\* Two callers change the same pair's vote at the same time: both have read
\* it, the pair has a committed row, and one has written its change.
C1_Witness ==
  /\ call["c1"].op \in VoteOps
  /\ call["c2"].op \in VoteOps
  /\ call["c1"].id = call["c2"].id
  /\ call["c1"].voter = call["c2"].voter
  /\ call["c1"].pc = "commit"
  /\ call["c2"].pc \in {"unvote", "insert"}
  /\ RowsOfPair(votes, call["c1"].id, call["c1"].voter) # {}
  /\ RowsOfPair(pv, call["c1"].id, call["c1"].voter) # {}
  /\ RowsOfPair(pv, call["c1"].id, call["c1"].voter)
       # RowsOfPair(votes, call["c1"].id, call["c1"].voter)

\* C2: for an existing quote and a pair in state s, a vote operation that
\* meets no store failure returns a nil error and the boolean of the
\* transition table, and leaves the pair in the table's state.
C2_TransitionTable ==
  [][(Returns /\ ret'.op \in VoteOps /\ ~ret'.fault
        /\ QuoteExists(quotes, ret'.id))
       => LET s == PairState(votes, ret'.id, ret'.voter)
          IN /\ ret'.err = "nil"
             /\ ret'.ok = TableOk(ret'.op, s)
             /\ PairState(votes', ret'.id, ret'.voter) = TableTo(ret'.op, s)]_vars

\* A Downvote has just turned an up vote into a down vote.
C2_Witness ==
  /\ ret.op = "Downvote"
  /\ ret.ok
  /\ ret.vote = 1
  /\ PairState(votes, ret.id, ret.voter) = "down"

\* C3: the direction stored for (q, v) is the effect of the last vote call
\* on (q, v) that returned true: a call that returns true leaves the pair in
\* the state of its operation, and while q exists nothing else changes the
\* pair's state.
C3_LastAppliedWins ==
  [][/\ (Returns /\ ret'.op \in VoteOps /\ ret'.ok)
         => PairState(votes', ret'.id, ret'.voter) = EffectOf(ret'.op)
     /\ (votes' # votes)
         => \A id \in QuoteIds, v \in Voters :
              (QuoteExists(quotes', id)
                /\ PairState(votes', id, v) # PairState(votes, id, v))
              => /\ Returns
                 /\ ret'.op \in VoteOps
                 /\ ret'.ok
                 /\ ret'.id = id
                 /\ ret'.voter = v]_vars

\* An Unvote has just returned true after the pair was voted on.
C3_Witness ==
  /\ ret.op = "Unvote"
  /\ ret.ok
  /\ ret.vote # 0
  /\ PairState(votes, ret.id, ret.voter) = "none"

\* C4: an Upvote (Downvote) of a pair from none returns true; the Upvote
\* (Downvote) that follows it finds the pair up (down), returns false with a
\* nil error, and no step of it changes the ledger: rows, directions and
\* cast times stay.
C4_SecondVoteIsNoOp ==
  [][\A c \in Callers :
       /\ (Returns /\ ret'.caller = c /\ ret'.op \in {"Upvote", "Downvote"}
              /\ ~ret'.fault /\ QuoteExists(quotes, ret'.id)
              /\ PairState(votes, ret'.id, ret'.voter) = "none")
            => /\ ret'.ok
               /\ ret'.err = "nil"
       /\ (StepOf(c) /\ call[c].op \in {"Upvote", "Downvote"}
              /\ PairState(votes, call[c].id, call[c].voter)
                   = EffectOf(call[c].op))
            => /\ votes' = votes
               /\ (Returns /\ ~ret'.fault) => (~ret'.ok /\ ret'.err = "nil")]_vars

\* The second Upvote of a pair has just returned false, a second after the
\* first cast the vote.
C4_Witness ==
  /\ ret.op = "Upvote"
  /\ ~ret.ok
  /\ ret.err = "nil"
  /\ ~ret.fault
  /\ \E r \in RowsOfPair(votes, ret.id, ret.voter) : r.vote = 1 /\ r.date < now

\* C5: a vote operation on a quote id that does not exist returns false and
\* a non-nil error, and no step of it changes the quotes, the votes or the
\* cached count.
C5_VoteOnMissingQuote ==
  [][\A c \in Callers :
       /\ (StepOf(c) /\ call[c].op \in VoteOps /\ ~QuoteExists(quotes, call[c].id))
            => /\ <<quotes, votes, nQuotes>>' = <<quotes, votes, nQuotes>>
               /\ Returns => (~ret'.ok /\ ret'.err # "nil")
       /\ (Returns /\ ret'.caller = c /\ ret'.op \in VoteOps
              /\ ~QuoteExists(quotes, ret'.id))
            => /\ <<quotes, votes, nQuotes>>' = <<quotes, votes, nQuotes>>
               /\ ~ret'.ok
               /\ ret'.err # "nil"]_vars

\* A vote on a missing quote has just been refused with "Not a valid id".
C5_Witness ==
  /\ ret.op \in VoteOps
  /\ ret.err = "notvalid"
  /\ ~QuoteExists(quotes, ret.id)

\* The votes of a quote as Votes(id) counts them.
VoteRowsOf(vs, id) ==
  {r \in vs : r.quote_id = id}

VotesOf(vs, id) ==
  <<Cardinality({r \in VoteRowsOf(vs, id) : r.vote = 1}),
    Cardinality({r \in VoteRowsOf(vs, id) : r.vote = -1})>>

ScoreOf(vs, id) ==
  VotesOf(vs, id)[1] - VotesOf(vs, id)[2]

\* C6: DelQuote on an existing quote, whatever votes it has, returns true
\* when no store failure is met; after it neither the quote row nor a vote
\* row of the quote exists and Votes(q) is (0, 0); the quote row and its vote
\* rows leave the store in the same step.
C6_DeleteRemovesQuoteAndVotes ==
  [][\A id \in QuoteIds :
       /\ (Returns /\ ret'.op = "DelQuote" /\ ret'.id = id /\ ~ret'.fault
              /\ QuoteExists(quotes, id))
            => ret'.ok
       /\ (Returns /\ ret'.op = "DelQuote" /\ ret'.id = id /\ ret'.ok)
            => /\ ~QuoteExists(quotes', id)
               /\ VoteRowsOf(votes', id) = {}
               /\ VotesOf(votes', id) = <<0, 0>>
       /\ (QuoteExists(quotes, id) /\ ~QuoteExists(quotes', id))
            => VoteRowsOf(votes', id) = {}]_vars

\* C7: when no call is under way, after any sequence of AddQuote and DelQuote
\* calls, failed ones too, and after Close and OpenDB, the cached count
\* NQuotes() returns is the number of rows of quotes.
C7_CountIsRowCount ==
  (\A c \in Callers : call[c] = NoCall) => nQuotes = Cardinality(quotes)

\* The call of c has removed a quote row and has its count left to adjust.
RemovedARow(c) ==
  call[c].pc = "dec"

\* C8: on the open engine, EditQuote and DelQuote on an id that no quote has
\* return false and a nil error when no store failure is met, and no step of
\* them changes the quotes, the votes or the cached count.
C8_MissingIdIsNoOp ==
  [][\A c \in Callers :
       /\ (StepOf(c) /\ call[c].op = "DelQuote" /\ ~QuoteExists(quotes, call[c].id)
              /\ ~RemovedARow(c))
            => <<quotes, votes, nQuotes>>' = <<quotes, votes, nQuotes>>
       /\ (Returns /\ ret'.caller = c /\ ret'.op \in {"EditQuote", "DelQuote"}
              /\ dbOpen /\ ~QuoteExists(quotes, ret'.id) /\ ~RemovedARow(c))
            => /\ <<quotes, votes, nQuotes>>' = <<quotes, votes, nQuotes>>
               /\ ~ret'.fault => (~ret'.ok /\ ret'.err = "nil")]_vars

\* A DelQuote of the head revision on a missing id has just returned
\* (false, nil) beside a stored quote.
C8_Witness ==
  /\ rev = "part_001"
  /\ ret.op = "DelQuote"
  /\ ~ret.ok
  /\ ret.err = "nil"
  /\ ~QuoteExists(quotes, ret.id)
  /\ quotes # {}

\* C9: on the open engine, a quote RandomQuote returns has a score (upvotes - downvotes) above
\* -2, and when no stored quote has one (all are at -2 or below, or there is
\* none) RandomQuote returns an error and no quote.
C9_RandomQuoteFilters ==
  /\ (ret.op = "RandomQuote" /\ ret.err = "nil")
       => /\ QuoteExists(quotes, ret.id)
          /\ ScoreOf(votes, ret.id) > -2
          /\ ret.n - ret.m > -2
  /\ (ret.op = "RandomQuote" /\ dbOpen
        /\ \A r \in quotes : ScoreOf(votes, r.id) <= -2)
       => /\ ret.err # "nil"
          /\ ~ret.ok
          /\ ~ret.fault => ret.err = "norows"

\* RandomQuote has just returned a quote while another stored quote has
\* score -2.
C9_Witness ==
  /\ ret.op = "RandomQuote"
  /\ ret.err = "nil"
  /\ \E r \in quotes : r.id # ret.id /\ ScoreOf(votes, r.id) <= -2

\* C10, as claimed: RandomQuote fails for want of a row only when the store
\* holds no quote at all, a quote with score -2 or below being a possible
\* result.
C10_NotFoundOnlyWhenEmpty ==
  (ret.op = "RandomQuote" /\ ret.err = "norows") => quotes = {}

\* C10, amended: RandomQuote has no argument and filters whenever there are
\* votes.  When it fails for want of a row, no stored quote has a score above
\* -2; and a stored quote is a possible result exactly when its score is
\* above -2.
C10_AlwaysFiltered ==
  /\ (ret.op = "RandomQuote" /\ ret.err = "norows")
       => \A r \in quotes : ScoreOf(votes, r.id) <= -2
  /\ (ret = NoRet /\ dbOpen /\ call["c1"] = NoCall)
       => \A r \in quotes :
            ScoreOf(votes, r.id) > -2
              <=> ENABLED (RandomQuote("c1") /\ ret'.id = r.id /\ ret'.err = "nil")

\* RandomQuote has just failed for want of a row although a quote is stored.
C10_Witness ==
  /\ ret.op = "RandomQuote"
  /\ ret.err = "norows"
  /\ quotes # {}

\* The stored quotes GetAll(filterLow) is to list.
Listed(filterLow) ==
  {r \in quotes : filterLow => ScoreOf(votes, r.id) > -2}

\* C11: on the open engine and absent a store failure, GetAll(true) returns
\* exactly the stored quotes with score above -2 and GetAll(false) exactly
\* all stored quotes, each once, with its columns and its current up and down
\* counts, in strictly descending order of id.
C11_GetAllListsInDescendingId ==
  (ret.op = "GetAll" /\ dbOpen /\ ~ret.fault)
    => /\ ret.err = "nil"
       /\ {ret.rows[i].id : i \in DOMAIN ret.rows} = {r.id : r \in Listed(ret.filterLow)}
       /\ Len(ret.rows) = Cardinality(Listed(ret.filterLow))
       /\ \A i \in DOMAIN ret.rows :
            /\ \E r \in quotes :
                 /\ r.id = ret.rows[i].id
                 /\ r.date = ret.rows[i].date
                 /\ r.author = ret.rows[i].author
                 /\ r.quote = ret.rows[i].quote
            /\ <<ret.rows[i].upvotes, ret.rows[i].downvotes>>
                 = VotesOf(votes, ret.rows[i].id)
       /\ \A i, j \in DOMAIN ret.rows : i < j => ret.rows[i].id > ret.rows[j].id

\* GetAll(false) has just listed two quotes, one of them with score -2, which
\* GetAll(true) leaves out.
C11_Witness ==
  /\ ret.op = "GetAll"
  /\ ~ret.filterLow
  /\ Len(ret.rows) = 2
  /\ Cardinality(Listed(TRUE)) = 1

\* C12: Votes(q), when it returns no error, returns the number of ledger rows
\* of q with direction up and the number with direction down; after
\* Upvote(q, v) and Downvote(q, v) of the only voter that is (0, 1).
C12_VotesCountsUpAndDown ==
  (ret.op = "Votes" /\ ret.err = "nil")
    => <<ret.n, ret.m>> = VotesOf(votes, ret.id)

\* C13: after Close, every further operation that uses the store (AddQuote,
\* EditQuote, DelQuote, Upvote, Downvote, Unvote, Votes, GetQuote,
\* RandomQuote, GetAll) returns an error, and none of them panics.
C13_ClosedEngineReturnsError ==
  (~dbOpen /\ ret.op \in {"AddQuote", "EditQuote", "DelQuote", "Upvote", "Downvote",
                          "Unvote", "Votes", "GetQuote", "RandomQuote", "GetAll"})
    => /\ ret.err # "nil"
       /\ ret.err # "panic"

\* C14: a quote id is never reused: the id an AddQuote gives its new row (and
\* returns) is none of the ids given by earlier AddQuote calls, those of
\* quotes deleted since included.
C14_IdNeverReused ==
  [][\A r \in quotes' :
       ~QuoteExists(quotes, r.id) => r.id \notin issued]_vars

\* C15: on the open engine and absent a store failure, EditQuote(id, text) on
\* an existing id returns true and a nil error and changes only that quote's
\* text: its id, date and author, every other quote, every vote row and the
\* cached count stay.
C15_EditChangesOnlyText ==
  [][(Returns /\ ret'.op = "EditQuote" /\ dbOpen /\ ~ret'.fault
        /\ QuoteExists(quotes, ret'.id))
       => /\ ret'.ok
          /\ ret'.err = "nil"
          /\ <<votes, nQuotes>>' = <<votes, nQuotes>>
          /\ {r \in quotes' : r.id # ret'.id} = {r \in quotes : r.id # ret'.id}
          /\ \A r \in quotes : r.id = ret'.id =>
               {e \in quotes' : e.id = ret'.id}
                 = {[id |-> r.id, date |-> r.date, author |-> r.author,
                     quote |-> ret'.text]}]_vars

\* An EditQuote has just changed the text of one of two stored quotes, which
\* has a vote.
C15_Witness ==
  /\ ret.op = "EditQuote"
  /\ ret.ok
  /\ Cardinality(quotes) = 2
  /\ VoteRowsOf(votes, ret.id) # {}
  /\ \E r \in quotes : r.id = ret.id /\ r.quote = ret.text
  /\ \E r \in quotes : r.id # ret.id /\ r.quote # ret.text

\* C16: a DelQuote that returns an error returns false and its return step
\* leaves the quotes, the votes and the cached count as they are; a step of a
\* DelQuote call that changes the store removes the quote and all its votes
\* together and is past every failure (only the count is left to adjust), so
\* the votes of a quote never leave the store while the quote stays, nor the
\* quote while a vote stays.
C16_FailedDeleteChangesNothing ==
  [][\A c \in Callers :
       /\ (Returns /\ ret'.caller = c /\ ret'.op = "DelQuote" /\ ret'.err # "nil")
            => /\ ~ret'.ok
               /\ ~RemovedARow(c)
               /\ <<quotes, votes, nQuotes>>' = <<quotes, votes, nQuotes>>
       /\ (StepOf(c) /\ call[c].op = "DelQuote" /\ ~RemovedARow(c)
              /\ <<quotes, votes>>' # <<quotes, votes>>)
            => /\ call'[c].pc = "dec"
               /\ ~QuoteExists(quotes', call[c].id)
               /\ VoteRowsOf(votes', call[c].id) = {}
               /\ nQuotes' = nQuotes
       /\ (StepOf(c) /\ RemovedARow(c))
            => /\ Returns /\ ret'.ok /\ ret'.err = "nil"
               /\ nQuotes' = nQuotes - 1
               /\ <<quotes, votes>>' = <<quotes, votes>>]_vars

\* The commit of a DelQuote has just failed: the transaction had deleted the
\* quote and its votes, and both are still stored.
C16_Witness ==
  /\ ret.op = "DelQuote"
  /\ ret.err = "commit"
  /\ QuoteExists(quotes, ret.id)
  /\ VoteRowsOf(votes, ret.id) # {}

\* C17: concurrent vote operations on a pair serialize in the order of their
\* commits.  The rows of a pair of an existing quote change only in the step
\* in which a vote operation on that pair commits and returns true; that
\* operation finds the pair, as committed, in another state than its own
\* (it has not read a state that a later commit replaced), and leaves it in
\* its own state with at most one row; an operation that returns the no-op
\* result without a store failure finds the pair, as committed, in its state.
C17_VotesSerialize ==
  [][\A id \in QuoteIds, v \in Voters :
       LET commits == /\ Returns
                      /\ ret'.op \in VoteOps
                      /\ ret'.id = id
                      /\ ret'.voter = v
                      /\ ret'.err = "nil"
       IN /\ (QuoteExists(quotes', id)
                /\ RowsOfPair(votes', id, v) # RowsOfPair(votes, id, v))
               => commits /\ ret'.ok
          /\ (commits /\ ret'.ok)
               => /\ PairState(votes, id, v) # EffectOf(ret'.op)
                  /\ PairState(votes', id, v) = EffectOf(ret'.op)
                  /\ Cardinality(RowsOfPair(votes', id, v)) <= 1
                  /\ votes' \ RowsOfPair(votes', id, v)
                       = votes \ RowsOfPair(votes, id, v)
          /\ (commits /\ ~ret'.ok /\ ~ret'.fault)
               => /\ PairState(votes, id, v) = EffectOf(ret'.op)
                  /\ votes' = votes]_vars

\* The vote of one caller on a pair has just committed while the other
\* caller's vote on the same pair is under way.
C17_Witness ==
  /\ ret.op \in VoteOps
  /\ ret.ok
  /\ \E c \in Callers :
       /\ c # ret.caller
       /\ call[c].op \in VoteOps
       /\ call[c].id = ret.id
       /\ call[c].voter = ret.voter

\* A direction change of c is half applied: c's Upvote or Downvote has found
\* the vote of the other direction and has not inserted its own yet.
HalfApplied(c) ==
  /\ call[c].op \in {"Upvote", "Downvote"}
  /\ call[c].pc \in {"unvote", "insert"}
  /\ call[c].vote # 0

\* C18: no half-applied vote is observable.  While a direction change of a
\* pair is half applied the committed ledger, which is what every query of a
\* reader reads, still holds the pair's old vote, and GetQuote, RandomQuote
\* and GetAll return the committed counts; no step of a vote operation but
\* its commit changes the committed ledger; and a vote operation that meets a
\* failure leaves the ledger as it is and its transaction rolled back: no
\* lock and no write of it stays behind.
C18_NoHalfAppliedVote ==
  [][\A c \in Callers :
       /\ HalfApplied(c)' => PairState(votes', call'[c].id, call'[c].voter) # "none"
       /\ (Returns /\ ret'.op \in {"GetQuote", "RandomQuote"} /\ ret'.err = "nil")
            => <<ret'.n, ret'.m>> = VotesOf(votes, ret'.id)
       /\ (Returns /\ ret'.op = "GetAll" /\ ret'.err = "nil")
            => \A i \in DOMAIN ret'.rows :
                 <<ret'.rows[i].upvotes, ret'.rows[i].downvotes>>
                   = VotesOf(votes, ret'.rows[i].id)
       /\ (StepOf(c) /\ call[c].op \in VoteOps /\ votes' # votes)
            => Returns /\ ret'.ok /\ ret'.err = "nil"
       /\ (Returns /\ ret'.caller = c /\ ret'.op \in VoteOps /\ ret'.fault)
            => /\ votes' = votes
               /\ writer' # c
               /\ c \notin shared'
               /\ writer' = Leaked => writer = Leaked
               /\ leakedShared' => leakedShared]_vars

\* C19: a vote operation that meets a store failure (reading the quote or
\* the vote, deleting the old vote, inserting the new one, committing)
\* returns false and a non-nil error, never the no-op result (false, nil),
\* and has rolled its transaction back when it returns: it holds no lock and
\* leaves none behind.
C19_VoteFailureIsAnError ==
  [][\A c \in Callers :
       (Returns /\ ret'.caller = c /\ ret'.op \in VoteOps /\ ret'.fault)
         => /\ ~ret'.ok
            /\ ret'.err # "nil"
            /\ writer' \notin {c, Leaked} \/ writer' = writer
            /\ c \notin shared'
            /\ leakedShared' = leakedShared]_vars

\* C20: the cached count changes only in OpenDB, which loads it, and in the
\* return of an AddQuote or DelQuote that succeeded, after the store has
\* changed: by +1 when the AddQuote's row is committed, by -1 when the
\* DelQuote's row is gone.  An AddQuote that returns an error and a DelQuote
\* that returns false leave the count as it was, and the count never exceeds
\* the committed rows by an increment.
C20_CountFollowsCommittedChange ==
  [][/\ nQuotes' # nQuotes
          => \/ ~dbOpen /\ dbOpen'
             \/ /\ Returns
                /\ ret'.ok
                /\ ret'.err = "nil"
                /\ <<quotes, votes>>' = <<quotes, votes>>
                /\ \/ /\ ret'.op = "AddQuote"
                      /\ nQuotes' = nQuotes + 1
                      /\ QuoteExists(quotes, ret'.n)
                   \/ /\ ret'.op = "DelQuote"
                      /\ nQuotes' = nQuotes - 1
                      /\ ~QuoteExists(quotes, ret'.id)
     /\ (Returns /\ ret'.op = "AddQuote" /\ ret'.err # "nil") => nQuotes' = nQuotes
     /\ (Returns /\ ret'.op = "DelQuote" /\ ~ret'.ok) => nQuotes' = nQuotes
     /\ nQuotes' > nQuotes => nQuotes' <= Cardinality(quotes')]_vars

\* c's AddQuote or DelQuote is at a store statement or inside its
\* transaction: the statement or the commit is what it does next.
AtStoreWrite(c) ==
  /\ call[c].op \in {"AddQuote", "DelQuote"}
  /\ call[c].pc \in {"exec", "delvotes", "del", "commit"}

\* C21: AddQuote and DelQuote hold the write lock of the count only around
\* the increment or decrement.  While the store statement or the transaction
\* of one of them is executing it does not hold the lock, and an idle
\* caller's NQuotes() can take the read lock and return.
C21_CountLockOnlyAroundCount ==
  \A c \in Callers :
    AtStoreWrite(c)
      => /\ mu # c
         /\ \A d \in Callers \ {c} : Ready(d) => ENABLED NQuotes(d)

\* C22: with the callers' DelQuote and AddQuote calls interleaved, a DelQuote
\* returns true exactly when its own statement removed a row, the step that
\* removes a row removes one row, the count goes down by one in the return of
\* true and stays in the return of false, and once every call has returned
\* the count is the number of rows of table quotes.
C22_OneDeletePerRemovedRow ==
  [][/\ \A c \in Callers :
          /\ (StepOf(c) /\ call'[c].op = "DelQuote" /\ call[c].pc # "dec")
               => (call'[c].pc = "dec"
                     <=> /\ QuoteExists(quotes, call'[c].id)
                         /\ quotes' = {r \in quotes : r.id # call'[c].id})
          /\ (Returns /\ ret'.caller = c /\ ret'.op = "DelQuote")
               => /\ ret'.ok <=> call[c].pc = "dec"
                  /\ nQuotes' = IF ret'.ok THEN nQuotes - 1 ELSE nQuotes
     /\ (Quiet' /\ dbOpen') => nQuotes' = Cardinality(quotes')]_vars

\* The ids of the rows a GetAll returned.
ListedIds ==
  {ret.rows[i].id : i \in DOMAIN ret.rows}

\* C23, as claimed: the filtered queries exclude a quote exactly when its
\* score is below -2, so a quote whose score is exactly -2 is listed by
\* GetAll(true) and keeps RandomQuote from failing for want of a row.
C23_ExcludedExactlyBelowThreshold ==
  /\ (ret.op = "GetAll" /\ ret.filterLow /\ ret.err = "nil")
       => ListedIds = {r.id : r \in {q \in quotes : ~(ScoreOf(votes, q.id) < -2)}}
  /\ (ret.op = "RandomQuote" /\ ret.err = "nil") => ~(ScoreOf(votes, ret.id) < -2)
  /\ (ret.op = "RandomQuote" /\ ret.err = "norows")
       => \A r \in quotes : ScoreOf(votes, r.id) < -2

\* C23, amended: the filtered queries (GetAll(true), and RandomQuote, which
\* always filters) exclude a quote exactly when its score is -2 or below: a
\* quote at -2 is excluded like one at -3, a quote at -1 is not, and
\* GetAll(false) excludes nothing.
C23_ExcludedAtOrBelowThreshold ==
  /\ (ret.op = "GetAll" /\ ret.err = "nil")
       => \A r \in quotes :
            r.id \notin ListedIds <=> (ret.filterLow /\ ScoreOf(votes, r.id) <= -2)
  /\ (ret.op = "RandomQuote" /\ ret.err = "nil") => ~(ScoreOf(votes, ret.id) <= -2)
  /\ (ret.op = "RandomQuote" /\ ret.err = "norows")
       => \A r \in quotes : ScoreOf(votes, r.id) <= -2

\* GetAll(true) has just left out a quote whose score is exactly -2 and
\* listed another quote.
C23_Witness ==
  /\ ret.op = "GetAll"
  /\ ret.filterLow
  /\ ret.err = "nil"
  /\ ret.rows # <<>>
  /\ \E r \in quotes : ScoreOf(votes, r.id) = -2 /\ r.id \notin ListedIds

\* C24: the date of the ledger row of a pair is the time of the pair's last
\* applied cast.  An Upvote or Downvote that returns true leaves the pair
\* with one row, of its direction, stamped with a second of that call (not
\* before the call was made, not after it returned), whether the pair had no
\* vote or one of the other direction, whose row is gone in the same step;
\* and while the quote exists nothing but the return of an applied vote call
\* on the pair changes the pair's row.
C24_CastAtIsTimeOfLastCast ==
  [][/\ (Returns /\ ret'.op \in {"Upvote", "Downvote"} /\ ret'.ok)
          => /\ Cardinality(RowsOfPair(votes', ret'.id, ret'.voter)) = 1
             /\ \A r \in RowsOfPair(votes', ret'.id, ret'.voter) :
                  /\ PairState(votes', ret'.id, ret'.voter) = EffectOf(ret'.op)
                  /\ call[ret'.caller].began <= r.date
                  /\ r.date <= now
                  /\ r \notin votes
     /\ \A r \in votes' \ votes :
          /\ Returns
          /\ ret'.op \in {"Upvote", "Downvote"}
          /\ ret'.ok
          /\ r.quote_id = ret'.id
          /\ r.voter = ret'.voter
     /\ \A r \in votes \ votes' :
          QuoteExists(quotes', r.quote_id)
            => /\ Returns
               /\ ret'.op \in VoteOps
               /\ ret'.ok
               /\ r.quote_id = ret'.id
               /\ r.voter = ret'.voter]_vars

\* A Downvote made in second 1 has just replaced an up vote: the pair's row
\* carries second 1.
C24_Witness ==
  /\ ret.op = "Downvote"
  /\ ret.ok
  /\ ret.vote = 1
  /\ now = 1
  /\ \E r \in RowsOfPair(votes, ret.id, ret.voter) : r.vote = -1 /\ r.date = 1

\* C25: when sql.Open, createTable or getCount fails, OpenDB returns an error
\* and no engine, and the *sql.DB it had opened is closed when it returns: no
\* pool stays open without an engine that owns it.  OpenDB returns an engine
\* only when all three succeeded.
C25_FailedOpenReleasesStore ==
  /\ (ret.op = "OpenDB" /\ ret.err # "nil") => ~ret.ok /\ ~dbOpen /\ ~pool
  /\ (ret.op = "OpenDB" /\ ret.fault) => ret.err # "nil"
  /\ (ret.op = "OpenDB" /\ ret.err = "nil") => ret.ok /\ dbOpen /\ pool
  /\ (pool /\ ~dbOpen) => opening # "none"

\* OpenDB has just failed in getCount, after sql.Open and createTable
\* succeeded on a store that holds a quote.
C25_Witness ==
  /\ ret.op = "OpenDB"
  /\ ret.err = "count"
  /\ quotes # {}

\* Quote a ranks before quote b: the higher score, and of equal scores the
\* higher id.
RanksBefore(a, b) ==
  \/ ScoreOf(votes, a) > ScoreOf(votes, b)
  \/ ScoreOf(votes, a) = ScoreOf(votes, b) /\ a > b

\* C26: the page quotesRoot writes holds the quotes GetAll returned, each
\* once and with its counts.  With votesort it lists them by score
\* (upvotes - downvotes) descending and, among equal scores, by id
\* descending; without it, in GetAll's order, by id descending.  The order is
\* total: of two distinct stored quotes exactly one ranks before the other.
C26_VoteSortOrdersByScoreThenId ==
  (ret.op = "quotesRoot" /\ ret.status = 200)
    => /\ {ret.rows[i].id : i \in DOMAIN ret.rows} = {r.id : r \in Listed(ret.filterLow)}
       /\ Len(ret.rows) = Cardinality(Listed(ret.filterLow))
       /\ \A i \in DOMAIN ret.rows :
            <<ret.rows[i].upvotes, ret.rows[i].downvotes>>
              = VotesOf(votes, ret.rows[i].id)
       /\ \A i, j \in DOMAIN ret.rows :
            i < j => IF ret.req.votesort
                     THEN RanksBefore(ret.rows[i].id, ret.rows[j].id)
                     ELSE ret.rows[i].id > ret.rows[j].id
       /\ \A a, b \in {r.id : r \in quotes} :
            a # b => (RanksBefore(a, b) <=> ~RanksBefore(b, a))

\* A vote-sorted page of two quotes has just put the quote of lower id, which
\* has the higher score, first.
C26_Witness ==
  /\ ret.op = "quotesRoot"
  /\ ret.status = 200
  /\ ret.req.votesort
  /\ Len(ret.rows) = 2
  /\ ret.rows[1].id < ret.rows[2].id

\* The engine was opened with credentials.
Configured ==
  webuser # <<>> \/ webhash # <<>>

\* The request carries the configured username and password.
Matches(req) ==
  /\ req.auth
  /\ req.user = webuser
  /\ CompareHashAndPassword(webhash, req.pwd)

\* C27: with credentials configured, a request without the matching username
\* and password gets 401 and no engine query is made for it; no other request
\* gets 401.  A request that passes and whose GetAll fails gets 500.  Only a
\* response of 200 carries a page: none is partial.
C27_AuthAndFailureResponses ==
  ret.op = "quotesRoot"
    => /\ (Configured /\ ~Matches(ret.req))
            => ret.status = 401 /\ ret.n = 0 /\ ret.rows = <<>>
       /\ ret.status = 401 => Configured /\ ~Matches(ret.req)
       /\ ret.err = "store" => ret.status = 500 /\ ret.rows = <<>>
       /\ ret.status # 200 => ret.rows = <<>>
       /\ ret.status = 200
            => /\ ret.n = 1
               /\ ret.err = "nil"
               /\ Len(ret.rows) = Cardinality(Listed(ret.filterLow))

\* A request with the configured username and a wrong password has just
\* been refused while quotes are stored.
C27_Witness ==
  /\ ret.op = "quotesRoot"
  /\ ret.status = 401
  /\ ret.req.auth
  /\ ret.req.user = webuser
  /\ quotes # {}

\* C28: in every reachable state, whatever the interleaving of a DelQuote
\* with the other caller's votes on the same quote, every row of the ledger,
\* as committed and as the writing transaction has it, carries the id of a
\* quote that exists in table quotes.
C28_VotesReferToQuotes ==
  /\ \A r \in votes : QuoteExists(quotes, r.quote_id)
  /\ writer \in Callers => \A r \in pv : QuoteExists(pq, r.quote_id)

\* A DelQuote has deleted, in its transaction, a quote and its votes while
\* the other caller's vote on the same quote has read the quote and is about
\* to write.
C28_Witness ==
  /\ call["c1"].op = "DelQuote"
  /\ call["c1"].pc = "commit"
  /\ call["c1"].n = 1
  /\ call["c2"].op \in {"Upvote", "Downvote"}
  /\ call["c2"].pc \in {"unvote", "insert"}
  /\ call["c2"].id = call["c1"].id
  /\ HasVotes(votes, call["c1"].id)

\* C29: a transaction begun by Upvote, Downvote, Unvote or DelQuote is ended
\* before the call returns.  A caller that is not inside such a call holds no
\* lock of the store, and no transaction of a call that has returned is
\* still open.
C29_NoTransactionOutlivesItsCall ==
  /\ writer # Leaked
  /\ ~leakedShared
  /\ \A c \in Callers :
       call[c].op \notin (VoteOps \cup {"DelQuote"}) => writer # c /\ c \notin shared

\* The rows by which two ledgers differ.
ChangedRows(vs, ws) ==
  (vs \ ws) \cup (ws \ vs)

\* C30: no step of an Upvote, Downvote or Unvote on (q, v), whether the call
\* succeeds, is a no-op or fails, changes a quote row, the cached count or a
\* ledger row of another pair: the committed ledger and the one its
\* transaction is writing differ from the ledger before the step at most in
\* rows of (q, v).
C30_VoteChangesOnlyItsPair ==
  [][\A c \in Callers :
       (StepOf(c) /\ (call[c].op \in VoteOps \/ (Returns /\ ret'.op \in VoteOps)))
         => LET id == IF Returns THEN ret'.id ELSE call[c].id
                voter == IF Returns THEN ret'.voter ELSE call[c].voter
            IN /\ quotes' = quotes
               /\ nQuotes' = nQuotes
               /\ \A r \in ChangedRows(votes, votes') :
                    r.quote_id = id /\ r.voter = voter
               /\ writer' = c
                    => /\ pq' = quotes
                       /\ \A r \in ChangedRows(votes, pv') :
                            r.quote_id = id /\ r.voter = voter]_vars

\* A vote call has just changed its pair while the same voter has a vote on
\* another quote and another voter has a vote on the same quote.
C30_Witness ==
  /\ ret.op \in VoteOps
  /\ ret.ok
  /\ \E r \in votes : r.voter = ret.voter /\ r.quote_id # ret.id
  /\ \E r \in votes : r.voter # ret.voter /\ r.quote_id = ret.id
====
